---- MODULE Spec2Model ----
(***************************************************************************)
(* FRI folding schedules: the cost model estimate_proof_size, the          *)
(* exhaustive search optimal_folding_strategy and the fixed-factor         *)
(* scheduler simple_schedule with its helper num_rounds.                   *)
(*                                                                         *)
(* One behaviour is one call of a scheduler.  The recursion of the search  *)
(* is an explicit call stack; the while loop of num_rounds is one action   *)
(* per iteration.  A panic (failed assertion, ilog2 of 0, division by 0)   *)
(* unwinds the whole call.                                                 *)
(***************************************************************************)
EXTENDS Integers, Sequences, FiniteSets, TLC

VARIABLES
    debug_assertions,      \* TRUE: debug build (debug_assert! is compiled in)
    op,                    \* "optimal" | "simple": the scheduler called
    degree,
    blowup_factor,
    num_queries,
    remainder_poly_degree, \* simple_schedule only
    folding_factor,        \* simple_schedule only, in bits
    pc,                    \* "start" | "search" | "rounds" | "schedule" | "done"
    stack,                 \* frames of optimal_folding_strategy, innermost last
    calls,                 \* number of entries into optimal_folding_strategy
    num_rounds,            \* local of num_rounds()
    current_degree,        \* local of num_rounds()
    last_round_fold,       \* local of num_rounds() / simple_schedule()
    outcome,               \* "none" | "returned" | "panic"
    result_size,
    result_schedule

vars == <<debug_assertions, op, degree, blowup_factor, num_queries,
          remainder_poly_degree, folding_factor, pc, stack, calls, num_rounds,
          current_degree, last_round_fold, outcome, result_size,
          result_schedule>>

----------------------------------------------------------------------------
(* Bounds of the explored inputs *)

MaxDegree == 64
MaxBlowup == 4
MaxQueries == 2
MaxRemainder == 4
MaxFoldingBits == 4
\* cap of the counter of the while loop of num_rounds; above the 17 rounds of
\* the longest terminating call of the explored inputs
MaxRounds == 20

(* Program constants *)

ELEMENTS_IN_HASH_OUTPUT == 4
FE_IN_EACH_ELEMENTS == 2
MAX_FOLDING_BITS == 4

(* Value returned by the operators below when the Rust expression panics *)
Panic == -1

----------------------------------------------------------------------------
(* usize helpers *)

RECURSIVE Pow2(_)
Pow2(b) == IF b = 0 THEN 1 ELSE 2 * Pow2(b - 1)

RECURSIVE ILog2(_)
\* usize::ilog2 for n >= 1 (callers test n = 0, which panics)
ILog2(n) == IF n <= 1 THEN 0 ELSE 1 + ILog2(n \div 2)

RECURSIVE IsPowerOfTwo(_)
IsPowerOfTwo(n) ==
    IF n <= 0 THEN FALSE
    ELSE IF n = 1 THEN TRUE
    ELSE n % 2 = 0 /\ IsPowerOfTwo(n \div 2)

RECURSIVE SumSeq(_)
SumSeq(s) == IF s = <<>> THEN 0 ELSE Head(s) + SumSeq(Tail(s))

Min(a, b) == IF a < b THEN a ELSE b

----------------------------------------------------------------------------
(* estimate_proof_size *)

RECURSIVE EstimateLoop(_, _, _, _, _)
\* the for loop: <<current_layer_degree, num_elements>> after the rounds
\* i..Len(folding_seq); <<Panic, Panic>> when ilog2 is taken of 0
EstimateLoop(q, folding_seq, i, current_layer_degree, num_elements) ==
    IF i > Len(folding_seq) THEN <<current_layer_degree, num_elements>>
    ELSE IF current_layer_degree = 0 THEN <<Panic, Panic>>
    ELSE LET factor == Pow2(folding_seq[i])
         IN  EstimateLoop(q, folding_seq, i + 1,
                 current_layer_degree \div factor,
                 num_elements
                   + q * ILog2(current_layer_degree) * ELEMENTS_IN_HASH_OUTPUT
                   + q * factor * FE_IN_EACH_ELEMENTS)

EstimateProofSize(d, b, q, folding_seq) ==
    LET walk == EstimateLoop(q, folding_seq, 1, d, 0)
    IN  IF walk[1] = Panic \/ b = 0 THEN Panic
        ELSE walk[2] + (walk[1] \div b) * FE_IN_EACH_ELEMENTS

RECURSIVE LayerDegrees(_, _)
\* the values current_layer_degree takes after each round of the walk
LayerDegrees(d, folding_seq) ==
    IF folding_seq = <<>> THEN <<>>
    ELSE LET next == d \div Pow2(Head(folding_seq))
         IN  <<next>> \o LayerDegrees(next, Tail(folding_seq))

----------------------------------------------------------------------------
(* optimal_folding_strategy *)

CurrentLayerDegree(d, current_folding_seq) ==
    LET folding_sum == Pow2(SumSeq(current_folding_seq))
    IN  d \div folding_sum

MaxFoldingFactorNoBlowup(current_layer_degree, b) ==
    Min(ILog2(current_layer_degree), MAX_FOLDING_BITS)

\* ((current_layer_degree / blowup_factor).ilog2() as usize).min(4);
\* Panic on a division by 0 or on ilog2 of 0
MaxFoldingFactor(current_layer_degree, b) ==
    IF b = 0 THEN Panic
    ELSE IF current_layer_degree \div b = 0 THEN Panic
    ELSE Min(ILog2(current_layer_degree \div b), MAX_FOLDING_BITS)

\* TRUE when the code of one call panics before its for loop
EntryPanics(dbg, d, b, q, current_folding_seq) ==
    \/ dbg /\ ~IsPowerOfTwo(d)
    \/ dbg /\ ~IsPowerOfTwo(b)
    \/ EstimateProofSize(d, b, q, current_folding_seq) = Panic
    \/ MaxFoldingFactor(CurrentLayerDegree(d, current_folding_seq), b) = Panic

\* the locals of one call when it reaches its for loop
NewFrame(d, b, q, current_folding_seq) ==
    [current_folding_seq |-> current_folding_seq,
     optimal_sequences   |-> current_folding_seq,
     optimal_proof       |-> EstimateProofSize(d, b, q, current_folding_seq),
     max_folding_factor  |->
         MaxFoldingFactor(CurrentLayerDegree(d, current_folding_seq), b),
     factor              |-> 1]

KeepLarger(frame, size, sequences_layer) ==
    IF size > frame.optimal_proof
    THEN [frame EXCEPT !.optimal_proof = size,
                       !.optimal_sequences = sequences_layer,
                       !.factor = @ + 1]
    ELSE [frame EXCEPT !.factor = @ + 1]

KeepBetterSizeOnly(frame, size, sequences_layer) ==
    IF size < frame.optimal_proof
    THEN [frame EXCEPT !.optimal_proof = size, !.factor = @ + 1]
    ELSE [frame EXCEPT !.factor = @ + 1]

\* the body of the for loop after the recursive call has returned
KeepBetter(frame, size, sequences_layer) ==
    IF size < frame.optimal_proof
    THEN [frame EXCEPT !.optimal_proof = size,
                       !.optimal_sequences = sequences_layer,
                       !.factor = @ + 1]
    ELSE [frame EXCEPT !.factor = @ + 1]

----------------------------------------------------------------------------
(* simple_schedule and num_rounds *)

\* the debug_assert! lines of simple_schedule
SimpleEntryPanics(dbg, d, b, r) ==
    \/ dbg /\ ~IsPowerOfTwo(d)
    \/ dbg /\ ~IsPowerOfTwo(b)
    \/ dbg /\ ~IsPowerOfTwo(r)
    \/ dbg /\ ~(r <= d \div b)
    \/ b = 0

LoopConditionStrict(cur, ff, r) == cur \div Pow2(ff) > r

LoopConditionNoDivision(cur, ff, r) == cur >= r

\* while current_degree / folding_factor >= remainder_poly_degree
LoopCondition(cur, ff, r) == cur \div Pow2(ff) >= r

\* Panic on a division by 0
LastRoundFold(cur, r) ==
    IF cur > r THEN (IF r = 0 THEN Panic ELSE ILog2(cur \div r)) ELSE 0

\* assert!(last_round_fold.is_power_of_two() || last_round_fold == 0)
LastRoundAssert(lrf) == IsPowerOfTwo(lrf) \/ lrf = 0

\* vec![0] resized to n entries with ff
RECURSIVE Resize(_, _, _)
Resize(s, n, ff) ==
    IF Len(s) = n THEN s
    ELSE IF Len(s) > n THEN Resize(SubSeq(s, 1, Len(s) - 1), n, ff)
    ELSE Resize(Append(s, ff), n, ff)

FoldingSchedule(n, ff, lrf) ==
    LET fixed == Resize(<<0>>, n, ff)
    IN  IF lrf > 1 THEN Append(fixed, lrf) ELSE fixed

----------------------------------------------------------------------------
(* Inputs *)

\* the calls of main() and the scenarios of the fixed-factor scheduler
SimpleScenarios ==
    {<<33554432, 8, 27, 64, i>> : i \in 1..4} \cup {<<1024, 2, 1, 4, 2>>}

SimpleInputs ==
    ((0..MaxDegree) \X (0..MaxBlowup) \X (0..MaxQueries)
        \X (0..MaxRemainder) \X (0..MaxFoldingBits))
    \cup SimpleScenarios

OptimalInputs ==
    (0..MaxDegree) \X (0..MaxBlowup) \X (0..MaxQueries)

Init ==
    /\ debug_assertions \in BOOLEAN
    /\ op \in {"optimal", "simple"}
    /\ \/ /\ op = "optimal"
          /\ \E in \in OptimalInputs :
                /\ degree = in[1]
                /\ blowup_factor = in[2]
                /\ num_queries = in[3]
          /\ remainder_poly_degree = 0
          /\ folding_factor = 0
       \/ /\ op = "simple"
          /\ \E in \in SimpleInputs :
                /\ degree = in[1]
                /\ blowup_factor = in[2]
                /\ num_queries = in[3]
                /\ remainder_poly_degree = in[4]
                /\ folding_factor = in[5]
    /\ pc = "start"
    /\ stack = <<>>
    /\ calls = 0
    /\ num_rounds = 0
    /\ current_degree = 0
    /\ last_round_fold = 0
    /\ outcome = "none"
    /\ result_size = 0
    /\ result_schedule = <<>>

inputs == <<debug_assertions, op, degree, blowup_factor, num_queries,
            remainder_poly_degree, folding_factor>>
simple_locals == <<num_rounds, current_degree, last_round_fold>>

PanicNow ==
    /\ pc' = "done"
    /\ outcome' = "panic"
    /\ stack' = <<>>
    /\ UNCHANGED <<result_size, result_schedule>>

----------------------------------------------------------------------------
(* Actions of the search *)

\* main calls optimal_folding_strategy(degree, blowup_factor, num_queries, vec![0])
CallOptimal ==
    /\ pc = "start"
    /\ op = "optimal"
    /\ calls' = calls + 1
    /\ IF EntryPanics(debug_assertions, degree, blowup_factor, num_queries, <<0>>)
       THEN PanicNow
       ELSE /\ stack' = <<NewFrame(degree, blowup_factor, num_queries, <<0>>)>>
            /\ pc' = "search"
            /\ UNCHANGED <<outcome, result_size, result_schedule>>
    /\ UNCHANGED <<inputs, simple_locals>>

\* one iteration of the for loop reaches the recursive call
Recurse ==
    /\ pc = "search"
    /\ LET top == stack[Len(stack)]
           sequences_this_layer == Append(top.current_folding_seq, top.factor)
       IN  /\ top.factor <= top.max_folding_factor
           /\ calls' = calls + 1
           /\ IF EntryPanics(debug_assertions, degree, blowup_factor,
                             num_queries, sequences_this_layer)
              THEN PanicNow
              ELSE /\ stack' = Append(stack, NewFrame(degree, blowup_factor,
                                         num_queries, sequences_this_layer))
                   /\ UNCHANGED <<pc, outcome, result_size, result_schedule>>
    /\ UNCHANGED <<inputs, simple_locals>>

\* the for loop of the innermost call is over: it returns
\* (optimal_proof, optimal_sequences) and the caller compares
Return ==
    /\ pc = "search"
    /\ LET top == stack[Len(stack)]
       IN  /\ top.factor > top.max_folding_factor
           /\ IF Len(stack) = 1
              THEN /\ stack' = <<>>
                   /\ pc' = "done"
                   /\ outcome' = "returned"
                   /\ result_size' = top.optimal_proof
                   /\ result_schedule' = top.optimal_sequences
              ELSE /\ stack' = [SubSeq(stack, 1, Len(stack) - 1)
                                  EXCEPT ![Len(stack) - 1] =
                                     KeepBetter(@, top.optimal_proof,
                                                top.optimal_sequences)]
                   /\ UNCHANGED <<pc, outcome, result_size, result_schedule>>
    /\ UNCHANGED <<inputs, simple_locals, calls>>

----------------------------------------------------------------------------
(* Actions of the fixed-factor scheduler *)

\* simple_schedule up to the first test of the while loop of num_rounds
CallSimple ==
    /\ pc = "start"
    /\ op = "simple"
    /\ IF SimpleEntryPanics(debug_assertions, degree, blowup_factor,
                            remainder_poly_degree)
       THEN /\ PanicNow
            /\ UNCHANGED simple_locals
       ELSE /\ num_rounds' = 1
            /\ current_degree' = degree \div blowup_factor
            /\ pc' = "rounds"
            /\ UNCHANGED <<last_round_fold, stack, outcome, result_size,
                           result_schedule>>
    /\ UNCHANGED <<inputs, calls>>

\* one iteration of the while loop
NumRoundsLoop ==
    /\ pc = "rounds"
    /\ LoopCondition(current_degree, folding_factor, remainder_poly_degree)
    /\ num_rounds < MaxRounds
    /\ current_degree' = current_degree \div Pow2(folding_factor)
    /\ num_rounds' = num_rounds + 1
    /\ UNCHANGED <<inputs, pc, stack, calls, last_round_fold, outcome,
                   result_size, result_schedule>>

\* the loop is over: num_rounds returns (num_rounds, last_round_fold)
NumRoundsReturn ==
    /\ pc = "rounds"
    /\ ~LoopCondition(current_degree, folding_factor, remainder_poly_degree)
    /\ IF LastRoundFold(current_degree, remainder_poly_degree) = Panic
       THEN /\ PanicNow
            /\ UNCHANGED last_round_fold
       ELSE /\ last_round_fold' =
                   LastRoundFold(current_degree, remainder_poly_degree)
            /\ pc' = "schedule"
            /\ UNCHANGED <<stack, outcome, result_size, result_schedule>>
    /\ UNCHANGED <<inputs, calls, num_rounds, current_degree>>

\* the rest of simple_schedule: resize, assert, push, estimate_proof_size
BuildSchedule ==
    /\ pc = "schedule"
    /\ LET folding_schedule ==
               FoldingSchedule(num_rounds, folding_factor, last_round_fold)
           proof_size == EstimateProofSize(degree, blowup_factor, num_queries,
                                           folding_schedule)
       IN  IF ~LastRoundAssert(last_round_fold) \/ proof_size = Panic
           THEN PanicNow
           ELSE /\ pc' = "done"
                /\ outcome' = "returned"
                /\ result_size' = proof_size
                /\ result_schedule' = folding_schedule
                /\ UNCHANGED stack
    /\ UNCHANGED <<inputs, simple_locals, calls>>

Next ==
    \/ CallOptimal
    \/ Recurse
    \/ Return
    \/ CallSimple
    \/ NumRoundsLoop
    \/ NumRoundsReturn
    \/ BuildSchedule

Spec == Init /\ [][Next]_vars

----------------------------------------------------------------------------
(* Vocabulary of the properties *)

\* the preconditions of the search: powers of two, degree >= blowup_factor
ValidOptimal ==
    /\ IsPowerOfTwo(degree)
    /\ IsPowerOfTwo(blowup_factor)
    /\ degree >= blowup_factor

\* the preconditions of the fixed-factor scheduler
ValidSimple ==
    /\ IsPowerOfTwo(degree)
    /\ IsPowerOfTwo(blowup_factor)
    /\ IsPowerOfTwo(remainder_poly_degree)
    /\ remainder_poly_degree <= degree \div blowup_factor

Size(folding_seq) ==
    EstimateProofSize(degree, blowup_factor, num_queries, folding_seq)

\* largest legal next exponent after seq:
\* min(4, floor(log2(current_layer_degree / blowup_factor)))
Cap(seq) ==
    Min(4, ILog2((degree \div Pow2(SumSeq(seq))) \div blowup_factor))

RECURSIVE Extensions(_)
\* every schedule that extends seed by zero or more legal exponents
Extensions(seed) ==
    {seed} \cup UNION {Extensions(Append(seed, f)) : f \in 1..Cap(seed)}

Finished(frame) == frame.factor > frame.max_folding_factor

Last(s) == s[Len(s)]

----------------------------------------------------------------------------
\* C1: the pair a call of optimal_folding_strategy returns, at the outermost
\* call and at every recursion level, is the minimum over the tree explored
\* from its seed: the schedule is an extension of the seed by legal
\* exponents and the size is at most the estimate of every such extension,
\* the seed included.
C1_MinimumOverTree ==
    (op = "optimal" /\ ValidOptimal) =>
        /\ (pc = "search" /\ Finished(Last(stack))) =>
              LET top == Last(stack)
                  tree == Extensions(top.current_folding_seq)
              IN  /\ top.optimal_sequences \in tree
                  /\ \A e \in tree : top.optimal_proof <= Size(e)
        /\ pc = "done" =>
              /\ outcome = "returned"
              /\ result_schedule \in Extensions(<<0>>)
              /\ \A e \in Extensions(<<0>>) : result_size <= Size(e)

\* a search over a tree of at least 8 schedules returned a schedule of two or
\* more folding rounds that beats the seed
C1_Witness ==
    /\ op = "optimal" /\ ValidOptimal /\ pc = "done" /\ outcome = "returned"
    /\ Cardinality(Extensions(<<0>>)) >= 8
    /\ Len(result_schedule) >= 3
    /\ result_size < Size(<<0>>)

C8_RoundTrip ==
    /\ \A i \in 1..Len(stack) :
          stack[i].optimal_proof = Size(stack[i].optimal_sequences)
    /\ (pc = "done" /\ outcome = "returned") =>
          result_size = Size(result_schedule)

\* a frame of the search has replaced its best pair by one a recursive call
\* returned, and has rounds left to try
C8_Witness ==
    /\ pc = "search"
    /\ \E i \in 1..Len(stack) :
          /\ stack[i].factor > 1
          /\ stack[i].optimal_sequences # stack[i].current_folding_seq
          /\ stack[i].factor <= stack[i].max_folding_factor

\* every layer degree of the walk of estimate_proof_size over folding_seq is
\* at least blowup_factor, hence positive, and the remainder degree is >= 1
WalkNeverUnderflows(folding_seq) ==
    LET layers == LayerDegrees(degree, folding_seq)
    IN  /\ degree >= 1
        /\ \A k \in 1..Len(layers) : layers[k] >= blowup_factor
        /\ Last(layers) \div blowup_factor >= 1

\* C9: every schedule a scheduler passes to estimate_proof_size under valid
\* parameters keeps current_layer_degree >= blowup_factor after every round
\* of the walk, so ilog2 is never taken of 0 and the remainder degree is at
\* least 1.
C9_LayerDegreeStaysAboveBlowup ==
    /\ (op = "optimal" /\ ValidOptimal) =>
          /\ \A i \in 1..Len(stack) :
                WalkNeverUnderflows(stack[i].current_folding_seq)
          /\ outcome # "panic"
    /\ (op = "simple" /\ ValidSimple /\ pc = "schedule"
          /\ LastRoundAssert(last_round_fold)) =>
          /\ WalkNeverUnderflows(
                FoldingSchedule(num_rounds, folding_factor, last_round_fold))
          /\ Size(FoldingSchedule(num_rounds, folding_factor,
                                  last_round_fold)) # Panic

\* simple_schedule is about to estimate a schedule of fixed-factor rounds
\* followed by an adjustment round
C9_Witness ==
    /\ op = "simple" /\ ValidSimple /\ pc = "schedule"
    /\ blowup_factor > 1
    /\ num_rounds >= 2
    /\ last_round_fold = 2

----------------------------------------------------------------------------
(* The fixed-factor scheduler *)

poly_degree == degree \div blowup_factor

\* the degree left after replaying the divisions of schedule on the working
\* degree
FinalDegree(schedule) == Last(LayerDegrees(poly_degree, schedule))

SimpleReturned ==
    op = "simple" /\ ValidSimple /\ pc = "done" /\ outcome = "returned"

C2_WitnessNoAdjustment ==
    /\ SimpleReturned
    /\ Len(result_schedule) = num_rounds
    /\ FinalDegree(result_schedule) = 2 * remainder_poly_degree

RECURSIVE ThresholdRounds(_, _, _)
\* smallest n >= 1 with working / (2^ff)^(n-1) <= threshold
ThresholdRounds(working, ff, threshold) ==
    IF working <= threshold THEN 1
    ELSE 1 + ThresholdRounds(working \div Pow2(ff), ff, threshold)

\* C3: read as a threshold, the remainder target makes the returned schedule
\* [0] followed by n-1 copies of folding_factor, n the smallest integer with
\* working_degree / (2^folding_factor)^(n-1) <= threshold; 2^10, 2, 2, 4
\* gives [0, 2, 2, 2, 2].
C3_ThresholdRounds ==
    (SimpleReturned /\ folding_factor >= 1) =>
        result_schedule =
            Resize(<<0>>, ThresholdRounds(poly_degree, folding_factor,
                                          remainder_poly_degree),
                   folding_factor)

\* C4: with degree, blowup_factor and target powers of two,
\* target <= degree / blowup_factor and folding_factor >= 1, the assertion on
\* last_round_fold holds and the call returns a pair.
C4_AssertionHolds ==
    (op = "simple" /\ ValidSimple /\ folding_factor >= 1) =>
        /\ pc = "schedule" => LastRoundAssert(last_round_fold)
        /\ pc = "done" => outcome = "returned"

\* C5: a call whose parameters are not powers of two, or whose target
\* exceeds degree / blowup_factor, fails at the entry of the outermost call:
\* it returns no pair and no recursive call is made.
C5_InvalidParameterFails ==
    /\ (op = "optimal"
          /\ ~(IsPowerOfTwo(degree) /\ IsPowerOfTwo(blowup_factor))) =>
          /\ pc # "start" => (pc = "done" /\ outcome = "panic")
          /\ calls <= 1
    /\ (op = "simple" /\ ~ValidSimple /\ pc # "start") =>
          (pc = "done" /\ outcome = "panic")

\* C6: with degree = blowup_factor (working degree 1) both schedulers return
\* [0]: the search for every num_queries, simple_schedule for every
\* folding_factor and target 1 (its schedule has num_rounds entries, so
\* num_rounds stays 1).
C6_WorkingDegreeOne ==
    (IsPowerOfTwo(degree) /\ degree = blowup_factor) =>
        /\ op = "optimal" =>
              (pc = "done" => (outcome = "returned" /\ result_schedule = <<0>>))
        /\ (op = "simple" /\ remainder_poly_degree = 1) =>
              /\ pc \in {"rounds", "schedule", "done"} => num_rounds = 1
              /\ pc = "done" =>
                    (outcome = "returned" /\ result_schedule = <<0>>)

\* C10: under the preconditions the loop of num_rounds performs at most
\* log2((degree / blowup_factor) / target) divisions, for every
\* folding_factor, and then the call returns or fails.
C10_LoopBounded ==
    (op = "simple" /\ ValidSimple /\ pc \in {"rounds", "schedule", "done"}) =>
        num_rounds - 1 <= ILog2(poly_degree \div remainder_poly_degree)

====
